---- MODULE Spec2Model ----
(***************************************************************************)
(* Local-network video streaming: the two server entry points of the       *)
(* repository (server.js: RTMP ingest + FFmpeg HLS transcoding; the        *)
(* low-latency FLV server that follows the winston logger in logger.js)    *)
(* and the browser client (client.js) that negotiates a WebRTC receive     *)
(* transport over socket.io.                                               *)
(*                                                                         *)
(* Each entry point is its own Node/browser process with its own module    *)
(* state; in one behaviour exactly one of them runs (prog), and the        *)
(* environment (node-media-server, socket.io, the operating system, the    *)
(* mediasoup signalling peer) raises events in any order.  One action is   *)
(* one callback run to completion on the event loop.                       *)
(***************************************************************************)
EXTENDS Integers, Sequences, FiniteSets, TLC

----------------------------------------------------------------------------
(* Bounds of the model *)

MaxSockets == 2
MaxConnects == 2
MaxSpawns == 2
MaxRtmp == 1
MaxAttempts == 2
MaxPublish == 2

----------------------------------------------------------------------------
(* Program constants *)

INPUT_APP == "input"
APP_NAME == "live"
STREAM_KEY == "stream"

\* `/${INPUT_APP}/${STREAM_KEY}`, the path server.js transcodes
InputPath == "/" \o INPUT_APP \o "/" \o STREAM_KEY

\* `/${APP_NAME}/${STREAM_KEY}`, the path the FLV server reports on
LivePath == "/" \o APP_NAME \o "/" \o STREAM_KEY

\* the stream paths a publisher may push to
Paths == {InputPath, LivePath}

Programs == {"server.js", "logger.js", "client.js"}

Sockets == 1..MaxSockets
RtmpIds == 1..MaxRtmp
Pids == 1..MaxSpawns

NoProc == 0
FailedProc == -1
NoCount == -1
NoId == 0

NoStatus == [live |-> FALSE, path |-> "none"]

VARIABLES
  prog,           \* the entry point that runs in this behaviour
  main,           \* the main process: "running", "closing" or "exited"
  exitCause,      \* why the main process ended
  rtmpSessions,   \* RTMP sessions currently connected to node-media-server
  publisher,      \* per path, the session of the most recent prePublish
  lastPublish,    \* per path, the most recent publish event handled
  activeStreams,  \* logger.js: const activeStreams = new Set()
  clients,        \* const clients = new Set()
  viewerCount,    \* payload of the most recent io.emit("viewerCount", n)
  counts,         \* per socket, the "viewerCount" payloads delivered to it
  nConnects,      \* "connection" events handled so far
  nDisconnects,   \* "disconnect" events handled so far
  streamStatus,   \* per socket, the last "streamStatus" payload delivered
  statusSent,     \* payload of the most recent io.emit("streamStatus", m)
  statuses,       \* per socket, the "streamStatus" payloads delivered to it
  statusLog,      \* logger.js: every io.emit("streamStatus", m), in order
  publishLog,     \* logger.js: the publish events handled, in order
  ffmpegProc,     \* server.js: let ffmpegProc = null
  running,        \* child processes spawned and not yet exited
  spawned,        \* number of spawn("ffmpeg") calls that created a process
  killed,         \* children a termination signal has been sent to
  errorPending,   \* a child 'error' event is queued on process.nextTick
  timers,         \* callbacks scheduled with setTimeout and not yet run
  pc,             \* client.js: where init() is suspended
  attempt,        \* client.js: number of init() runs started
  requests,       \* client.js: <<attempt, event>> of every socket.emit so far
  offered,        \* client.js: <<attempt, kind>> of every descriptor received
  consumers       \* client.js: <<attempt, kind>> of every consumer created

vars == <<prog, main, exitCause, rtmpSessions, publisher, lastPublish,
          activeStreams, clients, viewerCount, nConnects, nDisconnects,
          counts, streamStatus, statusSent, statuses, statusLog,
          publishLog, ffmpegProc, running, spawned, killed,
          errorPending, timers, pc, attempt, requests, offered, consumers>>

ingestVars == <<rtmpSessions, publisher, lastPublish>>
presenceVars == <<clients, viewerCount, counts, nConnects,
                  nDisconnects, streamStatus, statuses>>
statusVars == <<activeStreams, statusSent, statusLog, publishLog>>
ffmpegVars == <<ffmpegProc, running, spawned, killed, errorPending>>
clientVars == <<pc, attempt, requests, offered, consumers>>
processVars == <<prog, main, exitCause>>

Init ==
  /\ prog \in Programs
  /\ main = "running"
  /\ exitCause = "none"
  /\ rtmpSessions = {}
  /\ publisher = [p \in Paths |-> NoId]
  /\ lastPublish = [p \in Paths |-> "none"]
  /\ activeStreams = {}
  /\ clients = {}
  /\ viewerCount = NoCount
  /\ nConnects = 0
  /\ nDisconnects = 0
  /\ streamStatus = [s \in Sockets |-> NoStatus]
  /\ statusSent = NoStatus
  /\ counts = [s \in Sockets |-> <<>>]
  /\ statuses = [s \in Sockets |-> <<>>]
  /\ statusLog = <<>>
  /\ publishLog = <<>>
  /\ ffmpegProc = NoProc
  /\ running = {}
  /\ spawned = 0
  /\ killed = {}
  /\ errorPending = FALSE
  /\ timers = {}
  /\ pc = "load"
  /\ attempt = 0
  /\ requests = <<>>
  /\ offered = {}
  /\ consumers = {}

----------------------------------------------------------------------------
(* The event loop of a Node process: callbacks queued with process.nextTick *)
(* run before any further I/O event is dispatched.                          *)

\* the main process of entry point e can dispatch an I/O event
Dispatch(e) == prog = e /\ main # "exited" /\ ~errorPending

----------------------------------------------------------------------------
(* server.js *)

\* spawn("ffmpeg", args, ...): the operating system either creates the
\* child or refuses (ffmpeg missing, not executable, no resources)
SpawnOutcomes == {"spawned", "failed"}

\* startFFmpeg without its "if (ffmpegProc) return" guard
startFFmpegUnguarded(outcome) ==
  IF outcome = "spawned"
    THEN /\ ffmpegProc' = spawned + 1
         /\ running' = running \cup {spawned + 1}
         /\ spawned' = spawned + 1
         /\ UNCHANGED <<killed, errorPending>>
    ELSE /\ ffmpegProc' = FailedProc
         /\ errorPending' = TRUE
         /\ UNCHANGED <<running, spawned, killed>>

\* function startFFmpeg(): a failed spawn still returns a ChildProcess
\* (without pid) and queues its 'error' event on the next tick
startFFmpeg(outcome) ==
  IF ffmpegProc # NoProc
    THEN UNCHANGED ffmpegVars
    ELSE IF outcome = "spawned"
      THEN /\ ffmpegProc' = spawned + 1
           /\ running' = running \cup {spawned + 1}
           /\ spawned' = spawned + 1
           /\ UNCHANGED <<killed, errorPending>>
      ELSE /\ ffmpegProc' = FailedProc
           /\ errorPending' = TRUE
           /\ UNCHANGED <<running, spawned, killed>>

\* ffmpegProc.on("exit", ...): the handle is cleared
ffmpegExit(pid) ==
  /\ Dispatch("server.js")
  /\ pid \in running
  /\ running' = running \ {pid}
  /\ ffmpegProc' = NoProc
  /\ UNCHANGED <<spawned, killed, errorPending>>
  /\ UNCHANGED <<processVars, ingestVars, presenceVars, clientVars,
                 statusVars, timers>>

\* the queued 'error' event of a failed spawn: the child has no 'error'
\* listener, so emit throws; server.js installs no uncaughtException
\* handler and the process dies
ffmpegError ==
  /\ prog = "server.js"
  /\ main # "exited"
  /\ errorPending
  /\ errorPending' = FALSE
  /\ main' = "exited"
  /\ exitCause' = "uncaughtException"
  /\ UNCHANGED <<prog, ffmpegProc, running, spawned, killed>>
  /\ UNCHANGED <<ingestVars, presenceVars, clientVars, statusVars, timers>>

\* nms.on("prePublish", (id, streamPath) => ...) of server.js
Server_prePublish(id, p, outcome) ==
  /\ Dispatch("server.js")
  /\ id \in rtmpSessions
  /\ (p = InputPath /\ ffmpegProc = NoProc /\ outcome = "spawned")
       => spawned < MaxSpawns
  /\ publisher' = [publisher EXCEPT ![p] = id]
  /\ lastPublish' = [lastPublish EXCEPT ![p] = "prePublish"]
  /\ IF p = InputPath THEN startFFmpeg(outcome) ELSE UNCHANGED ffmpegVars
  /\ UNCHANGED <<processVars, rtmpSessions, presenceVars, clientVars,
                 statusVars, timers>>

\* nms.on("donePublish", (id, streamPath) => ...) of server.js: a log line
Server_donePublish(id, p) ==
  /\ Dispatch("server.js")
  /\ id \in rtmpSessions
  /\ lastPublish' = [lastPublish EXCEPT ![p] = "donePublish"]
  /\ UNCHANGED <<processVars, rtmpSessions, publisher, presenceVars,
                 ffmpegVars, clientVars, statusVars, timers>>

\* an emit that reaches only the sockets that were connected before the
\* handler ran
EmitViewerCountBefore(to, n) ==
  /\ viewerCount' = n
  /\ counts' = [s \in Sockets |->
                  IF s \in clients THEN Append(counts[s], n) ELSE <<>>]

\* io.emit("viewerCount", n): delivered to every socket connected now
EmitViewerCount(to, n) ==
  /\ viewerCount' = n
  /\ counts' = [s \in Sockets |->
                  IF s \in to THEN Append(counts[s], n) ELSE <<>>]

\* io.on("connection", (socket) => ...) of server.js
Server_connection(s) ==
  /\ Dispatch("server.js")
  /\ s \notin clients
  /\ nConnects < MaxConnects
  /\ clients' = clients \cup {s}
  /\ EmitViewerCount(clients', Cardinality(clients'))
  /\ nConnects' = nConnects + 1
  /\ UNCHANGED <<processVars, ingestVars, ffmpegVars, clientVars,
                 nDisconnects, streamStatus, statuses, statusVars, timers>>

\* socket.on("disconnect", () => ...) of server.js
Server_disconnect(s) ==
  /\ Dispatch("server.js")
  /\ s \in clients
  /\ clients' = clients \ {s}
  /\ EmitViewerCount(clients', Cardinality(clients'))
  /\ nDisconnects' = nDisconnects + 1
  /\ UNCHANGED <<processVars, ingestVars, ffmpegVars, clientVars, nConnects,
                 streamStatus, statuses, statusVars, timers>>

\* SIGTERM or SIGINT delivered to server.js: the file registers no
\* process.on handler, so the default disposition ends the process at once
Server_signal ==
  /\ prog = "server.js"
  /\ main # "exited"
  /\ main' = "exited"
  /\ exitCause' = "signal"
  /\ UNCHANGED <<prog, ingestVars, presenceVars, ffmpegVars, clientVars,
                 statusVars, timers>>

----------------------------------------------------------------------------
(* node-media-server sessions (both servers) *)

\* an RTMP client connects: preConnect and postConnect only log
postConnect(id) ==
  /\ prog \in {"server.js", "logger.js"}
  /\ main # "exited" /\ ~errorPending
  /\ id \notin rtmpSessions
  /\ rtmpSessions' = rtmpSessions \cup {id}
  /\ UNCHANGED <<processVars, publisher, lastPublish, presenceVars,
                 ffmpegVars, clientVars, statusVars, timers>>

\* an RTMP client disconnects: doneConnect only logs
doneConnect(id) ==
  /\ prog \in {"server.js", "logger.js"}
  /\ main # "exited" /\ ~errorPending
  /\ id \in rtmpSessions
  /\ rtmpSessions' = rtmpSessions \ {id}
  /\ UNCHANGED <<processVars, publisher, lastPublish, presenceVars,
                 ffmpegVars, clientVars, statusVars, timers>>

----------------------------------------------------------------------------
(* logger.js: the low-latency FLV server *)

\* an emit whose payload overtakes the ones a socket already holds
BroadcastOvertaking(msg) ==
  /\ statusSent' = msg
  /\ statusLog' = Append(statusLog, msg)
  /\ streamStatus' = [s \in Sockets |->
                        IF s \in clients THEN msg ELSE streamStatus[s]]
  /\ statuses' = [s \in Sockets |->
                    IF s \in clients
                      THEN <<Head(statuses[s]), msg>> \o Tail(statuses[s])
                      ELSE statuses[s]]

\* io.emit("streamStatus", msg): delivered to every connected socket
Broadcast(msg) ==
  /\ statusSent' = msg
  /\ statusLog' = Append(statusLog, msg)
  /\ streamStatus' = [s \in Sockets |->
                        IF s \in clients THEN msg ELSE streamStatus[s]]
  /\ statuses' = [s \in Sockets |->
                    IF s \in clients
                      THEN Append(statuses[s], msg)
                      ELSE statuses[s]]

\* activeStreams.add(StreamPath)
activeStreams_add(p) == activeStreams' = activeStreams \cup {p}

\* a handler that empties the whole set when one stream ends
activeStreams_clear(p) == activeStreams' = {}

\* activeStreams.delete(StreamPath)
activeStreams_delete(p) == activeStreams' = activeStreams \ {p}

\* nms.on("prePublish", (id, StreamPath, args) => ...) of logger.js
Logger_prePublish(id, p) ==
  /\ Dispatch("logger.js")
  /\ id \in rtmpSessions
  /\ Len(publishLog) < MaxPublish
  /\ publisher' = [publisher EXCEPT ![p] = id]
  /\ lastPublish' = [lastPublish EXCEPT ![p] = "prePublish"]
  /\ publishLog' = Append(publishLog, [event |-> "prePublish", path |-> p])
  /\ activeStreams_add(p)
  /\ Broadcast([live |-> TRUE, path |-> p])
  /\ UNCHANGED <<processVars, rtmpSessions, ffmpegVars, clientVars, clients,
                 viewerCount, counts, nConnects, nDisconnects,
                 timers>>

\* nms.on("donePublish", (id, StreamPath, args) => ...) of logger.js
Logger_donePublish(id, p) ==
  /\ Dispatch("logger.js")
  /\ id \in rtmpSessions
  /\ Len(publishLog) < MaxPublish
  /\ lastPublish' = [lastPublish EXCEPT ![p] = "donePublish"]
  /\ publishLog' = Append(publishLog, [event |-> "donePublish", path |-> p])
  /\ activeStreams_delete(p)
  /\ Broadcast([live |-> FALSE, path |-> p])
  /\ UNCHANGED <<processVars, rtmpSessions, publisher, ffmpegVars,
                 clientVars, clients, viewerCount, counts, nConnects,
                 nDisconnects, timers>>

\* io.on("connection", (socket) => ...) of logger.js; a closing HTTP
\* server accepts no new connection
Logger_connection(s) ==
  /\ Dispatch("logger.js")
  /\ main = "running"
  /\ s \notin clients
  /\ nConnects < MaxConnects
  /\ clients' = clients \cup {s}
  /\ EmitViewerCount(clients', Cardinality(clients'))
  /\ nConnects' = nConnects + 1
  /\ streamStatus' = [streamStatus EXCEPT ![s] =
                        [live |-> Cardinality(activeStreams) > 0,
                         path |-> "/" \o APP_NAME \o "/" \o STREAM_KEY]]
  /\ statuses' = [statuses EXCEPT ![s] = <<streamStatus'[s]>>]
  /\ UNCHANGED <<processVars, ingestVars, ffmpegVars, clientVars,
                 nDisconnects, statusVars, timers>>

\* a disconnect handler that broadcasts the size read before the delete
Logger_disconnectStale(s) ==
  /\ Dispatch("logger.js")
  /\ s \in clients
  /\ clients' = clients \ {s}
  /\ EmitViewerCount(clients', Cardinality(clients))
  /\ nDisconnects' = nDisconnects + 1
  /\ streamStatus' = [streamStatus EXCEPT ![s] = NoStatus]
  /\ statuses' = [statuses EXCEPT ![s] = <<>>]
  /\ UNCHANGED <<processVars, ingestVars, ffmpegVars, clientVars, nConnects,
                 statusVars, timers>>

\* socket.on("disconnect", () => ...) of logger.js
Logger_disconnect(s) ==
  /\ Dispatch("logger.js")
  /\ s \in clients
  /\ clients' = clients \ {s}
  /\ EmitViewerCount(clients', Cardinality(clients'))
  /\ nDisconnects' = nDisconnects + 1
  /\ streamStatus' = [streamStatus EXCEPT ![s] = NoStatus]
  /\ statuses' = [statuses EXCEPT ![s] = <<>>]
  /\ UNCHANGED <<processVars, ingestVars, ffmpegVars, clientVars, nConnects,
                 statusVars, timers>>

\* process.on("SIGTERM" / "SIGINT"): server.close(callback)
Logger_signal ==
  /\ Dispatch("logger.js")
  /\ main = "running"
  /\ main' = "closing"
  /\ UNCHANGED <<prog, exitCause, ingestVars, presenceVars, ffmpegVars,
                 clientVars, statusVars, timers>>

\* the callback of server.close, run once every connection has ended:
\* nms.stop(); process.exit(0)
Logger_closed ==
  /\ Dispatch("logger.js")
  /\ main = "closing"
  /\ clients = {}
  /\ main' = "exited"
  /\ exitCause' = "exit"
  /\ rtmpSessions' = {}
  /\ UNCHANGED <<prog, publisher, lastPublish, presenceVars, ffmpegVars,
                 clientVars, statusVars, timers>>

\* GET /api/info: isLive
isLive == ("/" \o APP_NAME \o "/" \o STREAM_KEY) \in activeStreams

----------------------------------------------------------------------------
(* client.js: the viewer page; every request goes out on the one socket    *)
(* created at module load (const socket = io({ autoConnect: true }))       *)

\* the requests of one negotiation, in the order init() issues them
NegotiationOrder ==
  <<"getRouterRtpCapabilities", "createTransport", "consume",
    "connectTransport">>

\* socket.emit(event, ..., ack)
Emit(event) == requests' = Append(requests, <<attempt, event>>)

\* the timers client.js can set
Timers == [fn : {"init"}, ms : {1000, 1500}]

\* setTimeout(init, ms)
SetTimeout(ms) == timers' = timers \cup {[fn |-> "init", ms |-> ms]}

\* catch (err) { console.error(...); setTimeout(init, 1500); }
Catch ==
  /\ SetTimeout(1500)
  /\ pc' = "retry"
  /\ UNCHANGED <<attempt, requests>>

\* init() is entered: it runs up to its first await, the fetch of /api/info
EnterInit ==
  /\ attempt' = attempt + 1
  /\ pc' = "fetchInfo"
  /\ UNCHANGED requests

\* window.addEventListener('load', () => { init(); })
Client_load ==
  /\ prog = "client.js"
  /\ pc = "load"
  /\ EnterInit
  /\ UNCHANGED <<processVars, ingestVars, presenceVars, ffmpegVars,
                 statusVars, timers>>
  /\ UNCHANGED <<offered, consumers>>

\* a timer set by setTimeout(init, ...) fires
Client_timer(t) ==
  /\ prog = "client.js"
  /\ t \in timers
  /\ attempt < MaxAttempts
  /\ timers' = timers \ {t}
  /\ EnterInit
  /\ UNCHANGED <<processVars, ingestVars, presenceVars, ffmpegVars,
                 statusVars>>
  /\ UNCHANGED <<offered, consumers>>

\* await fetch('/api/info'); await res.json(): then step 1 is requested
Client_info(ok) ==
  /\ prog = "client.js"
  /\ pc = "fetchInfo"
  /\ IF ok
       THEN /\ Emit("getRouterRtpCapabilities")
            /\ pc' = "awaitCapabilities"
            /\ UNCHANGED <<attempt, timers>>
       ELSE Catch
  /\ UNCHANGED <<processVars, ingestVars, presenceVars, ffmpegVars,
                 statusVars>>
  /\ UNCHANGED <<offered, consumers>>

\* the ack of getRouterRtpCapabilities: no data rejects; otherwise
\* device.load either accepts the capabilities or throws; then step 3
Client_capabilities(reply) ==
  /\ prog = "client.js"
  /\ pc = "awaitCapabilities"
  /\ IF reply = "data"
       THEN /\ Emit("createTransport")
            /\ pc' = "awaitTransport"
            /\ UNCHANGED <<attempt, timers>>
       ELSE Catch
  /\ UNCHANGED <<processVars, ingestVars, presenceVars, ffmpegVars,
                 statusVars>>
  /\ UNCHANGED <<offered, consumers>>

\* the ack of createTransport: no transport info rejects; otherwise the
\* receive transport is created, its 'connect' listener set, and step 5
\* (consume) is requested
Client_transport(reply) ==
  /\ prog = "client.js"
  /\ pc = "awaitTransport"
  /\ IF reply = "data"
       THEN /\ Emit("consume")
            /\ pc' = "awaitConsume"
            /\ UNCHANGED <<attempt, timers>>
       ELSE Catch
  /\ UNCHANGED <<processVars, ingestVars, presenceVars, ffmpegVars,
                 statusVars>>
  /\ UNCHANGED <<offered, consumers>>

\* the kinds of producer a descriptor can name
Kinds == {"video", "audio"}

\* the descriptors received during run a of init()
Offered(a) == {d \in offered : d[1] = a}

\* the consumer descriptors of a consume response with a non-empty list
Receive(kinds) == offered' = offered \cup {<<attempt, k>> : k \in kinds}

\* a consume handler that, on an empty list, asks to consume again on the
\* same transport instead of starting over
Client_consumeResume(reply) ==
  /\ prog = "client.js"
  /\ pc = "awaitConsume"
  /\ CASE reply = "consumers" ->
            /\ \E kinds \in (SUBSET Kinds) \ {{}} : Receive(kinds)
            /\ Emit("connectTransport")
            /\ pc' = "awaitConnect"
            /\ UNCHANGED <<attempt, timers>>
       [] reply = "invalid" ->
            /\ \E kinds \in (SUBSET Kinds) \ {{}} : Receive(kinds)
            /\ Catch
       [] reply \in {"empty", "missing"} ->
            /\ Len(requests) < 4 * MaxAttempts
            /\ Emit("consume")
            /\ pc' = "awaitConsume"
            /\ UNCHANGED <<attempt, timers, offered>>
       [] OTHER -> Catch /\ UNCHANGED offered
  /\ UNCHANGED consumers
  /\ UNCHANGED <<processVars, ingestVars, presenceVars, ffmpegVars,
                 statusVars>>

\* a consume handler that attaches a placeholder consumer when the server
\* returned no descriptor
Client_consumeFabricate(reply) ==
  /\ prog = "client.js"
  /\ pc = "awaitConsume"
  /\ CASE reply = "consumers" ->
            /\ \E kinds \in (SUBSET Kinds) \ {{}} : Receive(kinds)
            /\ Emit("connectTransport")
            /\ pc' = "awaitConnect"
            /\ UNCHANGED <<attempt, timers, consumers>>
       [] reply = "invalid" ->
            /\ \E kinds \in (SUBSET Kinds) \ {{}} : Receive(kinds)
            /\ Catch
            /\ UNCHANGED consumers
       [] reply \in {"empty", "missing"} ->
            /\ consumers' = consumers \cup {<<attempt, "video">>}
            /\ SetTimeout(1000)
            /\ pc' = "retry"
            /\ UNCHANGED <<attempt, requests, offered>>
       [] OTHER -> Catch /\ UNCHANGED <<offered, consumers>>
  /\ UNCHANGED <<processVars, ingestVars, presenceVars, ffmpegVars,
                 statusVars>>

\* the ack of consume: no response rejects; a response whose consumer list
\* is empty or missing schedules init again in 1 s and returns; otherwise
\* recvTransport.consume of the first descriptor either throws on a
\* descriptor it cannot use or makes the transport emit 'connect', whose
\* listener requests connectTransport
Client_consume(reply) ==
  /\ prog = "client.js"
  /\ pc = "awaitConsume"
  /\ CASE reply = "consumers" ->
            /\ \E kinds \in (SUBSET Kinds) \ {{}} : Receive(kinds)
            /\ Emit("connectTransport")
            /\ pc' = "awaitConnect"
            /\ UNCHANGED <<attempt, timers>>
       [] reply = "invalid" ->
            /\ \E kinds \in (SUBSET Kinds) \ {{}} : Receive(kinds)
            /\ Catch
       [] reply \in {"empty", "missing"} ->
            /\ SetTimeout(1000)
            /\ pc' = "retry"
            /\ UNCHANGED <<attempt, requests, offered>>
       [] OTHER -> Catch /\ UNCHANGED offered
  /\ UNCHANGED consumers
  /\ UNCHANGED <<processVars, ingestVars, presenceVars, ffmpegVars,
                 statusVars>>

\* the ack of connectTransport: ok calls callback() and the loop creates a
\* consumer per descriptor and attaches its track, unless a later
\* recvTransport.consume throws; not ok calls errback(), which makes
\* recvTransport.consume reject; both failures land in the catch of init
Client_connect(ok) ==
  /\ prog = "client.js"
  /\ pc = "awaitConnect"
  /\ IF ok
       THEN \E made \in SUBSET Offered(attempt) :
              /\ consumers' = consumers \cup made
              /\ IF made = Offered(attempt)
                   THEN /\ pc' = "consuming"
                        /\ UNCHANGED <<attempt, requests, timers>>
                   ELSE Catch
       ELSE Catch /\ UNCHANGED consumers
  /\ UNCHANGED offered
  /\ UNCHANGED <<processVars, ingestVars, presenceVars, ffmpegVars,
                 statusVars>>

\* what an ack may carry
Replies == {"null", "data", "invalid"}
ConsumeReplies == {"null", "empty", "missing", "consumers", "invalid"}

----------------------------------------------------------------------------

Next ==
  \/ \E id \in RtmpIds : postConnect(id)
  \/ \E id \in RtmpIds : doneConnect(id)
  \/ \E id \in RtmpIds, p \in Paths, o \in SpawnOutcomes :
       Server_prePublish(id, p, o)
  \/ \E id \in RtmpIds, p \in Paths : Server_donePublish(id, p)
  \/ \E pid \in Pids : ffmpegExit(pid)
  \/ ffmpegError
  \/ \E s \in Sockets : Server_connection(s)
  \/ \E s \in Sockets : Server_disconnect(s)
  \/ Server_signal
  \/ \E id \in RtmpIds, p \in Paths : Logger_prePublish(id, p)
  \/ \E id \in RtmpIds, p \in Paths : Logger_donePublish(id, p)
  \/ \E s \in Sockets : Logger_connection(s)
  \/ \E s \in Sockets : Logger_disconnect(s)
  \/ Logger_signal
  \/ Logger_closed
  \/ Client_load
  \/ \E t \in Timers : Client_timer(t)
  \/ \E ok \in BOOLEAN : Client_info(ok)
  \/ \E r \in Replies : Client_capabilities(r)
  \/ \E r \in Replies : Client_transport(r)
  \/ \E r \in ConsumeReplies : Client_consume(r)
  \/ \E ok \in BOOLEAN : Client_connect(ok)

Spec == Init /\ [][Next]_vars

----------------------------------------------------------------------------
(* Properties *)

\* unrequested exits of the transcoder so far
Crashes == Cardinality({q \in 1..spawned : q \notin running /\ q \notin killed})

\* the requests issued during run a of init(), in order
AttemptRequests(a) ==
  LET InRun(r) == r[1] = a IN SelectSeq(requests, InRun)

\* C1: in the FLV server a path is in the active-stream set, and
\* /api/info reports isLive for /live/stream, exactly when the most recent
\* prePublish/donePublish event handled for that path was prePublish
C1_LiveIffLastPrePublish ==
  prog = "logger.js" =>
    /\ \A p \in Paths : p \in activeStreams <=> lastPublish[p] = "prePublish"
    /\ isLive <=> lastPublish[LivePath] = "prePublish"

C1_Witness ==
  /\ prog = "logger.js"
  /\ publishLog = <<[event |-> "prePublish", path |-> LivePath],
                    [event |-> "donePublish", path |-> LivePath]>>
  /\ lastPublish[LivePath] = "donePublish"
  /\ ~isLive

\* C2: at most one transcoder child is spawned and not yet exited, it is
\* the one the handle names, and a prePublish that finds the handle set
\* spawns nothing and leaves the handle as it was, while one that finds it
\* empty and spawns creates exactly one child
C2_SingleTranscoder ==
  /\ [](Cardinality(running) <= 1 /\ running \subseteq {ffmpegProc})
  /\ [][\A id \in RtmpIds, o \in SpawnOutcomes :
          Server_prePublish(id, InputPath, o) =>
            IF ffmpegProc # NoProc
              THEN /\ ffmpegProc' = ffmpegProc
                   /\ running' = running
                   /\ spawned' = spawned
              ELSE o = "spawned" =>
                   /\ spawned' = spawned + 1
                   /\ running' = {ffmpegProc'}]_vars

C2_Witness ==
  /\ prog = "server.js"
  /\ spawned = 2
  /\ running = {2}
  /\ ffmpegProc = 2
  /\ lastPublish[InputPath] = "prePublish"

\* C3: handling donePublish for the transcoded path while a transcoder
\* runs sends it a termination request (or removes the job)
C3_DonePublishStopsJob ==
  [][\A id \in RtmpIds :
       (Server_donePublish(id, InputPath) /\ ffmpegProc \in running) =>
         (ffmpegProc \in killed' \/ ffmpegProc' = NoProc)]_vars

\* C4: once doneConnect of the session that published /live/stream has
\* been handled while it was live, the path is no longer live and
\* live=false was broadcast for it
C4_DisconnectClearsLive ==
  [][\A id \in RtmpIds :
       (doneConnect(id) /\ prog = "logger.js") =>
         ((publisher[LivePath] = id /\ isLive) =>
            /\ LivePath \notin activeStreams'
            /\ statusSent' = [live |-> FALSE, path |-> LivePath])]_vars

\* C5: after N connects and M disconnects the last broadcast viewerCount
\* is N - M and is the size of the viewer set, in both servers
C5_ViewerCount ==
  nConnects > 0 =>
    /\ viewerCount = nConnects - nDisconnects
    /\ viewerCount = Cardinality(clients)

C5_Witness ==
  /\ prog = "logger.js"
  /\ nConnects = 2
  /\ nDisconnects = 1
  /\ viewerCount = 1

\* C6: when the transcoder exits without a stop request and fewer than 2
\* crashes have used the restart budget, the supervisor has a new child
\* running or a restart scheduled
C6_CrashRestarts ==
  [][\A pid \in Pids :
       (ffmpegExit(pid) /\ pid \notin killed /\ Crashes < 2) =>
         (ffmpegProc' # NoProc \/ timers' # {})]_vars

\* C7: the streamStatus sent to a connecting viewer carries /live/stream
\* and a live flag equal to isLive of /api/info at that instant
C7_ConnectStatusIsLive ==
  [][\A s \in Sockets :
       Logger_connection(s) =>
         streamStatus'[s] = [live |-> isLive, path |-> LivePath]]_vars

\* C8: when the main process has ended on a shutdown signal, every
\* transcoder child still running had been sent a termination request
C8_StopBeforeExit ==
  (main = "exited" /\ exitCause \in {"signal", "exit"}) =>
    running \subseteq killed

\* C9: a transcoder that cannot be spawned never terminates the main
\* process
C9_FailureContained == exitCause # "uncaughtException"

\* C10 as claimed: on the viewer's socket, once consume has been requested
\* neither getRouterRtpCapabilities nor createTransport is requested again
C10_NoRenegotiationOnSession ==
  \A i \in 1..Len(requests), j \in 1..Len(requests) :
    (i < j /\ requests[i][2] = "consume") =>
      requests[j][2] \notin {"getRouterRtpCapabilities", "createTransport"}

\* C10 amended: within one run of init() the requests go out in the order
\* getRouterRtpCapabilities, createTransport, consume, connectTransport,
\* each at most once, and runs never interleave; a retry is a new run that
\* starts again from getRouterRtpCapabilities on the same socket
C10_ForwardWithinAttempt ==
  /\ \A i \in 1..(Len(requests) - 1) : requests[i][1] <= requests[i + 1][1]
  /\ \A a \in 1..attempt :
       LET rs == AttemptRequests(a) IN
         /\ Len(rs) <= Len(NegotiationOrder)
         /\ \A i \in 1..Len(rs) : rs[i][2] = NegotiationOrder[i]

C10_Witness ==
  /\ attempt = 2
  /\ \E i \in 1..Len(requests) : requests[i] = <<1, "consume">>
  /\ \E i \in 1..Len(requests) : requests[i] = <<2, "createTransport">>

\* C11: a consume response with an empty or missing consumer list makes
\* the viewer create no consumer and leave exactly one timer pending, the
\* 1 s retry of init(), without any further request in that run; and every
\* consumer ever created is for a descriptor the server returned
C11_EmptyConsumeRetries ==
  /\ [](consumers \subseteq offered)
  /\ [][\A r \in {"empty", "missing"} :
          Client_consume(r) =>
            /\ consumers' = consumers
            /\ {c \in consumers' : c[1] = attempt} = {}
            /\ timers' = {[fn |-> "init", ms |-> 1000]}
            /\ pc' = "retry"
            /\ requests' = requests
            /\ attempt' = attempt]_vars

C11_Witness ==
  /\ pc = "retry"
  /\ timers = {[fn |-> "init", ms |-> 1000]}
  /\ \E i \in 1..Len(requests) : requests[i] = <<attempt, "consume">>
  /\ Offered(attempt) = {}
  /\ consumers = {}

\* the streamStatus payload the handler of a publish event broadcasts
StatusOf(e) == [live |-> e.event = "prePublish", path |-> e.path]

\* C12: while no viewer has disconnected, the viewers' first received
\* viewerCount values are their join ranks 1..n, every viewer has received
\* one count per join since its own, each 1 more than the one before, and
\* the latest is the number of joins
C12_CountsPerJoin ==
  nDisconnects = 0 =>
    /\ \A s \in clients : Len(counts[s]) >= 1
    /\ {counts[s][1] : s \in clients} = 1..Cardinality(clients)
    /\ \A s \in clients :
         /\ \A i \in 1..Len(counts[s]) : counts[s][i] = counts[s][1] + i - 1
         /\ counts[s][Len(counts[s])] = nConnects

C12_Witness ==
  /\ nDisconnects = 0
  /\ \E s \in clients, t \in clients :
       counts[s] = <<1, 2>> /\ counts[t] = <<2>>

\* C13: a prePublish for a path that is already live changes neither the
\* active-stream set nor the list of streamStatus broadcasts
C13_RepublishIsNoop ==
  [][\A id \in RtmpIds, p \in Paths :
       (Logger_prePublish(id, p) /\ p \in activeStreams) =>
         /\ activeStreams' = activeStreams
         /\ statusLog' = statusLog]_vars

\* C14: what a connected viewer has received after the status sent to it
\* on connect is exactly the broadcasts of the publish events handled since
\* it connected, in the order the handlers ran; so all viewers hold
\* suffixes of one global sequence
C14_SameGlobalOrder ==
  prog = "logger.js" =>
    \A s \in clients :
      /\ Len(statuses[s]) >= 1
      /\ LET got == Tail(statuses[s])
             n == Len(publishLog)
         IN /\ Len(got) <= n
            /\ \A i \in 1..Len(got) :
                 got[i] = StatusOf(publishLog[n - Len(got) + i])

C14_Witness ==
  /\ Len(publishLog) = 2
  /\ publishLog[1] # publishLog[2]
  /\ \E s \in clients, t \in clients :
       Len(statuses[s]) = 3 /\ Len(statuses[t]) = 2

\* C15: if a connected viewer has received a live=true streamStatus, a
\* start of the transcoder had been requested
C15_StartBeforeLive ==
  (\E s \in clients : \E i \in 1..Len(statuses[s]) : statuses[s][i].live) =>
    (ffmpegProc # NoProc \/ spawned > 0)

\* C16: once a shutdown signal has been handled, the step that exits the
\* process can be taken whatever viewers are still connected
C16_ShutdownReachesExit ==
  (prog = "logger.js" /\ main = "closing") => ENABLED Logger_closed

\* C17: a failed connectTransport is retried on the same transport: the
\* request goes out again in the same run and no restart of init() is
\* scheduled
C17_ConnectRetriedInPlace ==
  [][Client_connect(FALSE) =>
       /\ timers' = timers
       /\ pc' = "awaitConnect"
       /\ requests' = Append(requests, <<attempt, "connectTransport">>)]_vars

\* C18: while a capability, transport or consume request is outstanding,
\* a timer is pending that will start a new attempt if no reply comes
C18_StalledRequestTimesOut ==
  pc \in {"awaitCapabilities", "awaitTransport", "awaitConsume"} =>
    timers # {}

\* C19: a donePublish for a path that is not live changes neither the
\* active-stream set nor the list of streamStatus broadcasts
C19_StrayDonePublishIgnored ==
  [][\A id \in RtmpIds, p \in Paths :
       (Logger_donePublish(id, p) /\ p \notin activeStreams) =>
         /\ activeStreams' = activeStreams
         /\ statusLog' = statusLog]_vars

\* C20: the transcoder handle is set exactly when a spawned child has not
\* yet exited
C20_HandleIffRunning ==
  prog = "server.js" => (ffmpegProc # NoProc <=> running # {})

====
